---- MODULE Spec2Model ----
(***************************************************************************)
(* keycard-qt: the command set (CommandSet), the secure channel            *)
(* (SecureChannel) and the transport they talk through, as a state         *)
(* machine.  Byte strings are symbolic terms with their lengths: a         *)
(* record [len, v] where v names how the bytes were made (a key, an        *)
(* AES-CBC ciphertext, a MAC, a flipped copy ...).  Two terms are equal    *)
(* exactly when the byte strings are (AES is a permutation, hashes do not  *)
(* collide).                                                               *)
(***************************************************************************)
EXTENDS Integers, Sequences, FiniteSets, TLC

\* ---------------------------------------------------------------- bounds
MaxOps == 3
MaxConcOps == 3
MaxChanSteps == 5
MaxFrames == 3

\* ------------------------------------------------------------- constants
SW_OK == 36864
SW_HOTPLUG == 28421
WRONG_MASK == 25536
ATTEMPTS_MASK == 15
BLOCK == 16
MIN_CARD_DATA == 48
SALT_LEN == 32
KEY_LEN == 32
NO_ATTEMPTS == -1

Threads == {1, 2}

\* ------------------------------------------------------- 16-bit helpers
RECURSIVE AndBits(_, _, _)
AndBits(a, b, n) ==
    IF n = 0 THEN 0
    ELSE (IF a % 2 = 1 /\ b % 2 = 1 THEN 1 ELSE 0)
         + 2 * AndBits(a \div 2, b \div 2, n - 1)

\* a & b on 16-bit status words
And16(a, b) == AndBits(a, b, 16)

RECURSIVE Pow2(_)
Pow2(n) == IF n = 0 THEN 1 ELSE 2 * Pow2(n - 1)

\* the status word with bit i flipped
FlipBit(sw, i) ==
    IF (sw \div Pow2(i)) % 2 = 1 THEN sw - Pow2(i) ELSE sw + Pow2(i)

\* ------------------------------------------------------------ byte terms
Empty == [len |-> 0, v |-> [t |-> "empty"]]
Zero16 == [len |-> 16, v |-> [t |-> "zero"]]

\* some single bit of b flipped: same length, different bytes
Flip(b) == [len |-> b.len, v |-> [t |-> "flip", of |-> b.v]]

\* APDU::Utils::pad(x, 16): 0x80 then zeros, always at least one byte
PadLen(n) == ((n \div BLOCK) + 1) * BLOCK

\* SecureChannel::encrypt: AES-256-CBC of the padded plaintext under the
\* session key and the running IV; empty when the channel is not open
Encrypt(isopen, key, ivv, pt) ==
    IF ~isopen THEN Empty
    ELSE [len |-> PadLen(pt.len),
          v |-> [t |-> "enc", k |-> key.v, iv |-> ivv.v, pt |-> pt]]

\* SecureChannel::decrypt: what the ciphertext decrypts to under the session
\* key and the running IV; bytes made under another key or IV, or changed
\* on the way, decrypt to garbage
Decrypt(isopen, key, ivv, ct) ==
    IF ~isopen \/ ct.len = 0 THEN Empty
    ELSE IF ct.v.t = "enc" /\ ct.v.k = key.v /\ ct.v.iv = ivv.v THEN ct.v.pt
    ELSE [len |-> ct.len, v |-> [t |-> "garbage", of |-> ct.v]]

\* a MAC that leaves the data out: it authenticates the meta block only
CalculateMACOfMeta(key, meta, data) ==
    IF PadLen(data.len) < 2 * BLOCK THEN Zero16
    ELSE [len |-> 16, v |-> [t |-> "mac", k |-> key.v, meta |-> meta, d |-> Empty.v]]

\* SecureChannel::calculateMAC: the second-to-last block of the CBC
\* encryption of the padded data chained after the encrypted meta block;
\* sixteen zero bytes when there are fewer than two blocks
CalculateMAC(key, meta, data) ==
    IF PadLen(data.len) < 2 * BLOCK THEN Zero16
    ELSE [len |-> 16, v |-> [t |-> "mac", k |-> key.v, meta |-> meta, d |-> data.v]]

\* ------------------------------------------------------- response data
NoData == [k |-> "none"]
ShortData == [k |-> "short"]
SecData(mac, ct) == [k |-> "sec", mac |-> mac, ct |-> ct]

\* QByteArray::size of a response data field
DataSize(d) ==
    CASE d.k = "none" -> 0
      [] d.k = "short" -> 8
      [] d.k = "sec" -> d.mac.len + d.ct.len
      [] d.k = "osc" -> SALT_LEN + d.iv.len
      [] OTHER -> d.len

\* APDU::Response: the last two bytes are the status word, the rest the data;
\* a response of fewer than two bytes has no status word
Response(raw) ==
    IF raw.k = "empty" THEN [data |-> NoData, sw |-> 0]
    ELSE [data |-> raw.data, sw |-> raw.sw]

\* APDU::Response of a decrypted plaintext, which ends with the status word
ResponseOfPlain(pt) ==
    IF pt.len >= 2 /\ pt.v.t = "rsp"
    THEN [data |-> [k |-> "plain", len |-> pt.len - 2], sw |-> pt.v.sw]
    ELSE [data |-> NoData, sw |-> 0]

IsOK(resp) == resp.sw = SW_OK

\* QByteArray::left(16) and mid(16) of a response data field of 16 bytes or more
Left16(d) == d.mac
Mid16(d) == d.ct

\* ------------------------------------------------------------- commands
\* CommandSet::buildCommand: every command it builds carries APDU::CLA
CLA == 128
CLA_ISO7816 == 0

\* a command built with the ISO class byte
BuildCommandIso(ins, p1, p2, data) ==
    [cla |-> CLA_ISO7816, ins |-> ins, p1 |-> p1, p2 |-> p2, data |-> data]

BuildCommand(ins, p1, p2, data) ==
    [cla |-> CLA, ins |-> ins, p1 |-> p1, p2 |-> p2, data |-> data]

\* the SELECT command of CommandSet::select
SelectCommand ==
    [cla |-> CLA_ISO7816, ins |-> "SELECT", p1 |-> 4, p2 |-> 0,
     data |-> [len |-> 9, v |-> [t |-> "aid"]]]

NoCommand == BuildCommand("NONE", 0, 0, Empty)

\* an APDU on the wire: the header and the data field
PlainApdu(cmd) ==
    [cla |-> cmd.cla, ins |-> cmd.ins, p1 |-> cmd.p1, p2 |-> cmd.p2,
     data |-> [k |-> "bytes", b |-> cmd.data]]
NoApdu == PlainApdu(NoCommand)

\* the 16-byte meta block of a request: CLA INS P1 P2 Lc' and zeros
RequestMeta(cmd, encData) ==
    <<cmd.cla, cmd.ins, cmd.p1, cmd.p2, (encData.len + 16) % 256>>

\* the 16-byte meta block of a response: its total data length and zeros
ResponseMeta(d) == <<DataSize(d) % 256>>

\* session keys: SHA-512(secret || pairing key || salt), split in two halves
DeriveKey(use, pairingKey, salt) ==
    [len |-> KEY_LEN, v |-> [t |-> "key", use |-> use, pk |-> pairingKey, salt |-> salt]]


\* ------------------------------------------------------------ answers
\* What transmit gives back: response bytes (how says where they come from:
\* the card, a flipped bit on the way, a bare status word ...), nothing at
\* all, or an exception.
Throw == [k |-> "throw", how |-> "throw"]
Nothing == [k |-> "empty", how |-> "nothing"]
Raw(how, data, sw) == [k |-> "raw", how |-> how, data |-> data, sw |-> sw]

\* ------------------------------------------------------------- the card
\* The applet at the other end of the transport: whether it is initialized,
\* its session (keys and running IV) and the number of channels it opened.
NoSess == [on |-> FALSE, enc |-> Empty, mac |-> Empty, iv |-> Empty]
CardKey == "good"

\* the card's answer to SELECT
CardSelect(c) ==
    [card |-> c,
     resp |-> Raw("card", [k |-> "appinfo", initialized |-> c.init], SW_OK)]

\* the card's answer to OPEN SECURE CHANNEL: a fresh salt and IV, and the
\* session keys derived from its own pairing key
CardOpen(c) ==
    IF ~c.init
    THEN [card |-> c, resp |-> Raw("card", NoData, 27013)]
    ELSE LET n == c.nonce + 1
             civ == [len |-> 16, v |-> [t |-> "civ", n |-> n]]
         IN [card |-> [c EXCEPT !.nonce = n,
                                !.sess = [on |-> TRUE,
                                          enc |-> DeriveKey("enc", CardKey, n),
                                          mac |-> DeriveKey("mac", CardKey, n),
                                          iv |-> civ]],
             resp |-> Raw("card", [k |-> "osc", salt |-> n, iv |-> civ], SW_OK)]

\* the card's answer to FACTORY RESET
CardFactoryReset(c) ==
    [card |-> [c EXCEPT !.init = FALSE, !.sess = NoSess],
     resp |-> Raw("card", NoData, SW_OK)]

\* the card's answer to an encrypted APDU: it checks the request MAC and the
\* chain, takes the request MAC as IV, and answers with the inner status
\* word isw encrypted and MACed; a request it cannot authenticate ends its session
CardSecure(c, apdu, isw) ==
    IF ~c.sess.on
    THEN [card |-> c, resp |-> Raw("card", NoData, 27013)]
    ELSE LET ct == apdu.data.ct
             meta == <<apdu.cla, apdu.ins, apdu.p1, apdu.p2, (ct.len + 16) % 256>>
             good == /\ apdu.data.mac = CalculateMAC(c.sess.mac, meta, ct)
                     /\ ct.len > 0
                     /\ ct.v.t = "enc" /\ ct.v.k = c.sess.enc.v /\ ct.v.iv = c.sess.iv.v
         IN IF ~good
            THEN [card |-> [c EXCEPT !.sess = NoSess],
                  resp |-> Raw("card", NoData, 27010)]
            ELSE LET inner == [len |-> 2, v |-> [t |-> "rsp", sw |-> isw]]
                     rct == Encrypt(TRUE, c.sess.enc, apdu.data.mac, inner)
                     rmac == CalculateMAC(c.sess.mac, <<(16 + rct.len) % 256>>, rct)
                 IN [card |-> [c EXCEPT !.sess.iv = rmac],
                     resp |-> Raw("card", SecData(rmac, rct), SW_OK)]

\* the card's answer to INIT: only a pre-initialized applet takes it
CardInit(c) ==
    IF c.init THEN [card |-> c, resp |-> Raw("card", NoData, 27013)]
    ELSE [card |-> [c EXCEPT !.init = TRUE], resp |-> Raw("card", NoData, SW_OK)]

CardHandle(c, apdu, isw) ==
    CASE apdu.data.k = "sec" -> CardSecure(c, apdu, isw)
      [] apdu.ins = "SELECT" -> CardSelect(c)
      [] apdu.ins = "OPEN_SECURE_CHANNEL" -> CardOpen(c)
      [] apdu.ins = "FACTORY_RESET" -> CardFactoryReset(c)
      [] apdu.ins = "INIT" -> CardInit(c)
      [] apdu.ins = "IDENTIFY" ->
            [card |-> c, resp |-> Raw("card", [k |-> "identity", len |-> 105], SW_OK)]
      [] OTHER -> [card |-> c, resp |-> Raw("card", NoData, 27904)]

\* ------------------------------------------------------ the transport
\* The answers the transport may give to one APDU.

\* inner status words of an encrypted answer: 9000, 63C2, 6F05, 6985
InnerSWs == {36864, 25538, 28421, 27013}
\* status words of a bare answer: 9000, 6982, 6F05, 63C5, 6FC5, 6985
BareSWs == {36864, 27010, 28421, 25541, 28613, 27013}
SWBits == 0 .. 15

\* an encrypted answer with one bit flipped, in the MAC, the ciphertext or the status word
Tampered(h) ==
    IF h.data.k # "sec" THEN {}
    ELSE {Raw("flipmac", SecData(Flip(h.data.mac), h.data.ct), h.sw),
          Raw("flipct", SecData(h.data.mac, Flip(h.data.ct)), h.sw)}
         \cup {Raw("flipsw", h.data, FlipBit(h.sw, i)) : i \in SWBits}

\* answers to an encrypted APDU
SecureAnswers(h) ==
    {h} \cup Tampered(h)
        \cup {Raw("bare", NoData, s) : s \in BareSWs}
        \cup {Raw("short", ShortData, SW_OK), Raw("zeromac", SecData(Zero16, Empty), SW_OK),
              Throw, Nothing}

\* answers to a plain APDU
PlainAnswers(h) ==
    {h, Raw("bare", NoData, 27013), Raw("short", ShortData, SW_OK), Throw, Nothing}
        \cup (IF h.data.k = "osc"
              THEN {Raw("long", [k |-> "osc", salt |-> h.data.salt,
                                 iv |-> [len |-> 18, v |-> h.data.iv.v]], SW_OK)}
              ELSE {})


\* ------------------------------------------------------------ the client
VARIABLES
    sc,       \* SecureChannel::Private: open, iv, encKey, macKey, rawPublicKeyData
    cs,       \* CommandSet: m_appInfo, m_pairingInfo, m_lastError, m_remainingPINAttempts
    mutex,    \* m_secureMutex: the thread inside send(), 0 when free
    pc,       \* per thread: idle, lock (entering send), tx (APDU in flight), sleep
    cur,      \* per thread: the operation in progress
    ret,      \* per thread: how its last operation ended
    nOps,     \* per thread: operations invoked so far
    wire,     \* per thread: the APDU it has on the transport
    xchg,     \* the last exchange of send() in this session: who sent, the request
              \* MAC, the answer and its MAC, how send() ended; whether a
              \* MUTUALLY AUTHENTICATE of this session has returned 9000; how
              \* many commands the session has carried since (0, 1, 2 for more)
    card,     \* the applet
    phase,    \* setup (one thread opens the channel) or run
    tp,       \* one transmit seen from inside the transport: the frames the
              \* card still holds, the response assembled so far
    ch        \* KeycardChannel and its backend: the card at the reader, the
              \* backend's connection, m_targetUid, the signals emitted

\* what the operations of CommandSet leave alone
side == <<tp, ch>>

vars == <<sc, cs, mutex, pc, cur, ret, nOps, wire, xchg, card, phase, tp, ch>>

\* no transmit is looked at from inside
NoTp == [at |-> "none", backend |-> "none", path |-> "none", pending |-> <<>>,
         resp |-> [len |-> 0, sw |-> 0], gets |-> 0, total |-> 0, final |-> 0]

\* no KeycardChannel is looked at
NoCh == [backend |-> "none", present |-> "", connected |-> FALSE, atr |-> "",
         uid |-> "", ins |-> 0, rem |-> 0, det |-> 0, lost |-> 0, calls |-> 0,
         n |-> 0, workaround |-> FALSE, pendingRequests |-> <<>>,
         last |-> [op |-> "none", conn |-> FALSE, det |-> <<>>, lost |-> 0,
                   ok |-> FALSE, ev |-> "none", out |-> "none"]]

\* ApplicationInfo and PairingInfo
NoAppInfo == [initialized |-> FALSE, hasPub |-> FALSE]
NoPairing == [key |-> "none", len |-> 0, index |-> -1]
GoodPairing == [key |-> "good", len |-> 32, index |-> 1]
WrongPairing == [key |-> "wrong", len |-> 32, index |-> 1]
MaxPairingSlots == 5

\* PairingInfo::isValid
IsValid(p) == p.len = KEY_LEN /\ p.index >= 0 /\ p.index < MaxPairingSlots

\* parseApplicationInfo: an initialized card or a pre-initialized one, each with the card's public key
ParseApplicationInfo(data) ==
    IF data.k = "appinfo" THEN [initialized |-> data.initialized, hasPub |-> TRUE]
    ELSE NoAppInfo

IdleCur == [op |-> "none", stage |-> "none", cmd |-> NoCommand, arg |-> NoPairing,
            wasOpen |-> FALSE, sends |-> 0, nth |-> 0]
NoRet == [op |-> "none", ok |-> FALSE, exc |-> "none", sw |-> 0,
          verified |-> FALSE, wasOpen |-> FALSE, wrong |-> FALSE, sends |-> 0, nth |-> 0,
          arg |-> NoPairing]
NoXchg == [phase |-> "none", by |-> 0, reqMac |-> Empty, respMac |-> Empty,
           how |-> "none", exc |-> "none", authed |-> FALSE, cmds |-> 0]

Init ==
    /\ sc = [open |-> FALSE, iv |-> Empty, encKey |-> Empty, macKey |-> Empty,
             rawPublicKeyData |-> FALSE]
    /\ cs = [appInfo |-> NoAppInfo, pairingInfo |-> NoPairing, lastError |-> "",
             remainingPINAttempts |-> NO_ATTEMPTS]
    /\ mutex = 0
    /\ pc = [t \in Threads |-> "idle"]
    /\ cur = [t \in Threads |-> IdleCur]
    /\ ret = [t \in Threads |-> NoRet]
    /\ nOps = [t \in Threads |-> 0]
    /\ wire = [t \in Threads |-> NoApdu]
    /\ xchg = NoXchg
    /\ card = [init |-> TRUE, sess |-> NoSess, nonce |-> 0]
    /\ phase = "seq"
    /\ tp = NoTp
    /\ ch = NoCh

\* SecureChannel::init
SecureChannelInit(s, ivv, ek, mk) ==
    [s EXCEPT !.iv = ivv, !.encKey = ek, !.macKey = mk, !.open = TRUE]

\* SecureChannel::reset: the session is cleared, the key pair and the secret are kept
SecureChannelReset(s) ==
    [s EXCEPT !.iv = Empty, !.encKey = Empty, !.macKey = Empty, !.open = FALSE]

\* a channel taken for open whatever its state
ChannelAssumedOpen == TRUE

\* SecureChannel::isOpen
IsOpen == sc.open

\* CommandSet::checkOK
CheckOK(c, resp) ==
    IF ~IsOK(resp) THEN [ok |-> FALSE, cs |-> [c EXCEPT !.lastError = "apdu"]]
    ELSE [ok |-> TRUE, cs |-> [c EXCEPT !.lastError = ""]]

\* a send that puts the MAC on the wire but keeps the old IV
SendRequestKeepIV(s, cmd) ==
    LET encData == Encrypt(s.open, s.encKey, s.iv, cmd.data)
        newIV == CalculateMAC(s.macKey, RequestMeta(cmd, encData), encData)
    IN [sc |-> s,
        apdu |-> [cla |-> cmd.cla, ins |-> cmd.ins, p1 |-> cmd.p1, p2 |-> cmd.p2,
                  data |-> SecData(newIV, encData)]]

\* SecureChannel::send up to the transmit: encrypt the data, MAC the meta
\* block and the ciphertext, take the MAC as IV and put MAC || ciphertext
\* on the wire under the command's own header
SendRequest(s, cmd) ==
    LET encData == Encrypt(s.open, s.encKey, s.iv, cmd.data)
        newIV == CalculateMAC(s.macKey, RequestMeta(cmd, encData), encData)
    IN [sc |-> [s EXCEPT !.iv = newIV],
        apdu |-> [cla |-> cmd.cla, ins |-> cmd.ins, p1 |-> cmd.p1, p2 |-> cmd.p2,
                  data |-> SecData(newIV, encData)]]

\* a send that treats every inner status word other than 9000 as fatal and
\* closes the session on it
SendResponseCloseOnError(s, raw) ==
    LET response == Response(raw) IN
    IF IsOK(response) /\ DataSize(response.data) # 0
    THEN IF DataSize(response.data) < 16
         THEN [exc |-> "short", resp |-> response, sc |-> s, verified |-> FALSE,
               respMac |-> Empty]
         ELSE LET responseMac == Left16(response.data)
                  responseData == Mid16(response.data)
                  decrypted == Decrypt(s.open, s.encKey, s.iv, responseData)
                  calculatedMac == CalculateMAC(s.macKey, ResponseMeta(response.data),
                                                responseData)
                  inner == ResponseOfPlain(decrypted)
              IN IF calculatedMac # responseMac
                 THEN [exc |-> "mac", resp |-> response, sc |-> s,
                       verified |-> FALSE, respMac |-> responseMac]
                 ELSE [exc |-> "none", resp |-> inner,
                       sc |-> [s EXCEPT !.iv = calculatedMac, !.open = IsOK(inner)],
                       verified |-> TRUE, respMac |-> responseMac]
    ELSE [exc |-> "none", resp |-> response, sc |-> s, verified |-> FALSE,
          respMac |-> Empty]

\* SecureChannel::send after the transmit: an answer that is not 9000 or has
\* no data goes back as it is; otherwise the data is split in MAC and
\* ciphertext, decrypted under the running IV, the MAC checked, the IV
\* replaced by the MAC, and the plaintext returned as the response
SendResponse(s, raw) ==
    LET response == Response(raw) IN
    IF IsOK(response) /\ DataSize(response.data) # 0
    THEN IF DataSize(response.data) < 16
         THEN [exc |-> "short", resp |-> response, sc |-> s, verified |-> FALSE,
               respMac |-> Empty]
         ELSE LET responseMac == Left16(response.data)
                  responseData == Mid16(response.data)
                  decrypted == Decrypt(s.open, s.encKey, s.iv, responseData)
                  calculatedMac == CalculateMAC(s.macKey, ResponseMeta(response.data),
                                                responseData)
              IN IF calculatedMac # responseMac
                 THEN [exc |-> "mac", resp |-> response, sc |-> s,
                       verified |-> FALSE, respMac |-> responseMac]
                 ELSE [exc |-> "none", resp |-> ResponseOfPlain(decrypted),
                       sc |-> [s EXCEPT !.iv = calculatedMac],
                       verified |-> TRUE, respMac |-> responseMac]
    ELSE [exc |-> "none", resp |-> response, sc |-> s, verified |-> FALSE,
          respMac |-> Empty]


\* ------------------------------------------------- the ends of the operations
\* CommandSet::mutualAuthenticate after send, and what openSecureChannel makes of it
MutualAuthenticateTail(c, resp) ==
    LET r == CheckOK(c, resp) IN
    IF ~r.ok THEN [cs |-> [r.cs EXCEPT !.lastError = "mafail"], ok |-> FALSE, wrong |-> FALSE]
    ELSE [cs |-> r.cs, ok |-> TRUE, wrong |-> FALSE]

\* CommandSet::verifyPIN after the last send: the wrong-PIN test, then checkOK
VerifyPINTail(c, resp) ==
    IF And16(resp.sw, WRONG_MASK) = WRONG_MASK
    THEN [cs |-> [c EXCEPT !.remainingPINAttempts = And16(resp.sw, ATTEMPTS_MASK),
                           !.lastError = "wrongpin"],
          ok |-> FALSE, wrong |-> TRUE]
    ELSE LET r == CheckOK([c EXCEPT !.remainingPINAttempts = NO_ATTEMPTS], resp)
         IN [cs |-> r.cs, ok |-> r.ok, wrong |-> FALSE]

\* CommandSet::unblockPIN after send: the wrong-PUK test, then checkOK
UnblockPINTail(c, resp) ==
    IF And16(resp.sw, WRONG_MASK) = WRONG_MASK
    THEN [cs |-> [c EXCEPT !.lastError = "wrongpuk"], ok |-> FALSE, wrong |-> TRUE]
    ELSE LET r == CheckOK(c, resp) IN [cs |-> r.cs, ok |-> r.ok, wrong |-> FALSE]

\* CommandSet::changePIN after send
ChangePINTail(c, resp) ==
    LET r == CheckOK(c, resp) IN [cs |-> r.cs, ok |-> r.ok, wrong |-> FALSE]

SecureTail(stage, c, resp) ==
    CASE stage = "ma" -> MutualAuthenticateTail(c, resp)
      [] stage \in {"vp1", "vp2"} -> VerifyPINTail(c, resp)
      [] stage = "ub" -> UnblockPINTail(c, resp)
      [] OTHER -> ChangePINTail(c, resp)

\* the command each operation sends through the secure channel
SecureCommand(op) ==
    CASE op = "verifyPIN" ->
            BuildCommand("VERIFY_PIN", 0, 0, [len |-> 6, v |-> [t |-> "pin"]])
      [] op = "unblockPIN" ->
            BuildCommand("UNBLOCK_PIN", 0, 0, [len |-> 18, v |-> [t |-> "puk_pin"]])
      [] op = "changePIN" ->
            BuildCommand("CHANGE_PIN", 0, 0, [len |-> 6, v |-> [t |-> "newpin"]])
      [] OTHER ->
            BuildCommand("MUTUALLY_AUTHENTICATE", 0, 0, [len |-> 32, v |-> [t |-> "challenge"]])

FirstStage(op) ==
    CASE op = "verifyPIN" -> "vp1"
      [] op = "unblockPIN" -> "ub"
      [] OTHER -> "cp"

\* ---------------------------------------------------------------- steps
\* the answers the transport may give in this run, and the inner status words
Lean == phase # "seq"
AnswersSecure(h) == IF Lean THEN {h, Raw("bare", NoData, 27010), Throw} ELSE SecureAnswers(h)
AnswersPlain(h) ==
    IF phase = "setup" THEN {h}
    ELSE IF Lean THEN {h, Raw("bare", NoData, 27013)} ELSE PlainAnswers(h)
AnswersInner ==
    IF phase = "setup" THEN {SW_OK}
    ELSE IF phase = "run" THEN {SW_OK, SW_HOTPLUG, 25538}
    ELSE IF Lean THEN {SW_OK, SW_HOTPLUG} ELSE InnerSWs

\* a caller is free to invoke an operation
CanCall(t) ==
    /\ pc[t] = "idle"
    /\ IF phase = "run"
       THEN nOps[1] + nOps[2] < MaxConcOps
       ELSE nOps[t] < MaxOps

Begin(t, op, stage, cmd, arg, to) ==
    /\ pc' = [pc EXCEPT ![t] = to]
    /\ cur' = [cur EXCEPT ![t] = [op |-> op, stage |-> stage, cmd |-> cmd, arg |-> arg,
                                  wasOpen |-> sc.open, sends |-> 0, nth |-> 0]]
    /\ nOps' = [nOps EXCEPT ![t] = @ + 1]

\* the operation returns to its caller (exc = "none") or ends by an exception
Finish(t, ok, exc, sw, verified, wrong) ==
    /\ pc' = [pc EXCEPT ![t] = "idle"]
    /\ ret' = [ret EXCEPT ![t] = [op |-> cur[t].op, ok |-> ok, exc |-> exc, sw |-> sw,
                                  verified |-> verified, wasOpen |-> cur[t].wasOpen,
                                  wrong |-> wrong, sends |-> cur[t].sends,
                                  nth |-> cur[t].nth, arg |-> cur[t].arg]]
    /\ cur' = [cur EXCEPT ![t] = IdleCur]
    /\ wire' = [wire EXCEPT ![t] = NoApdu]

\* an operation that returns before it transmits anything
ReturnAtOnce(t, op, arg, newcs) ==
    /\ pc' = pc /\ cur' = cur /\ wire' = wire
    /\ nOps' = [nOps EXCEPT ![t] = @ + 1]
    /\ ret' = [ret EXCEPT ![t] = [op |-> op, ok |-> FALSE, exc |-> "none", sw |-> 0,
                                  verified |-> FALSE, wasOpen |-> sc.open, wrong |-> FALSE,
                                  sends |-> 0, nth |-> 0, arg |-> arg]]
    /\ cs' = newcs

\* CommandSet::select up to its transmit
CallSelect(t) ==
    /\ CanCall(t)
    /\ Begin(t, "select", "select", SelectCommand, NoPairing, "tx")
    /\ wire' = [wire EXCEPT ![t] = PlainApdu(SelectCommand)]
    /\ UNCHANGED <<sc, cs, mutex, ret, xchg, card, phase, side>>

\* CommandSet::factoryReset up to the transmit of its SELECT
CallFactoryReset(t) ==
    /\ CanCall(t)
    /\ Begin(t, "factoryReset", "fr_select", SelectCommand, NoPairing, "tx")
    /\ wire' = [wire EXCEPT ![t] = PlainApdu(SelectCommand)]
    /\ UNCHANGED <<sc, cs, mutex, ret, xchg, card, phase, side>>

\* a pairing info that is never turned down
PairingNeverRefused(pairingInfo) == FALSE

\* openSecureChannel: if (!pairingInfo.isValid())
PairingRefused(pairingInfo) == ~IsValid(pairingInfo)

\* CommandSet::openSecureChannel up to the transmit of OPEN SECURE CHANNEL
CallOpenSecureChannel(t, pairingInfo) ==
    /\ CanCall(t)
    /\ IF PairingRefused(pairingInfo)
       THEN /\ ReturnAtOnce(t, "openSecureChannel", pairingInfo,
                             [cs EXCEPT !.lastError = "invalidpairing"])
            /\ UNCHANGED <<sc, mutex, xchg, card, phase, side>>
       ELSE IF ~sc.rawPublicKeyData
       THEN /\ ReturnAtOnce(t, "openSecureChannel", pairingInfo,
                             [cs EXCEPT !.pairingInfo = pairingInfo,
                                        !.lastError = "nopubkey"])
            /\ UNCHANGED <<sc, mutex, xchg, card, phase, side>>
       ELSE LET cmd == BuildCommand("OPEN_SECURE_CHANNEL", pairingInfo.index, 0,
                                    [len |-> 65, v |-> [t |-> "pubkey"]])
            IN /\ Begin(t, "openSecureChannel", "osc", cmd, pairingInfo, "tx")
               /\ wire' = [wire EXCEPT ![t] = PlainApdu(cmd)]
               /\ cs' = [cs EXCEPT !.pairingInfo = pairingInfo]
               /\ UNCHANGED <<sc, mutex, ret, xchg, card, phase, side>>

\* verifyPIN, unblockPIN, changePIN up to send(): the isOpen test
CallSecure(t, op) ==
    /\ CanCall(t)
    /\ IF ~IsOpen
       THEN /\ ReturnAtOnce(t, op, NoPairing, [cs EXCEPT !.lastError = "notopen"])
            /\ UNCHANGED <<sc, mutex, xchg, card, phase, side>>
       ELSE /\ Begin(t, op, FirstStage(op), SecureCommand(op), NoPairing, "lock")
            /\ UNCHANGED <<sc, cs, mutex, ret, wire, xchg, card, phase, side>>


\* a lock that never makes a caller wait
MutexIgnored == TRUE

\* QMutexLocker on m_secureMutex
MutexFree == mutex = 0

\* SecureChannel::send from the lock to the transmit
Enter(t) ==
    /\ pc[t] = "lock"
    /\ MutexFree
    /\ IF ~sc.open
       THEN /\ Finish(t, FALSE, "notopen", 0, FALSE, FALSE)
            /\ UNCHANGED <<sc, cs, mutex, nOps, xchg, card, phase, side>>
       ELSE LET r == SendRequest(sc, cur[t].cmd)
                again == cur[t].stage \in {"ma", "vp2"}
                cmds == IF again THEN xchg.cmds
                        ELSE IF xchg.cmds < 2 THEN xchg.cmds + 1 ELSE 2
            IN
            /\ sc' = r.sc
            /\ mutex' = t
            /\ wire' = [wire EXCEPT ![t] = r.apdu]
            /\ pc' = [pc EXCEPT ![t] = "tx"]
            /\ xchg' = [xchg EXCEPT !.phase = "sent", !.by = t,
                                     !.reqMac = r.apdu.data.mac, !.respMac = Empty,
                                     !.how = "none", !.exc = "none", !.cmds = cmds]
            /\ cur' = [cur EXCEPT ![t].sends = @ + 1,
                                   ![t].nth = IF again THEN @ ELSE cmds]
            /\ UNCHANGED <<cs, ret, nOps, card, phase, side>>

\* QThread::msleep(50) before the retry of verifyPIN
Sleep(t) ==
    /\ pc[t] = "sleep"
    /\ pc' = [pc EXCEPT ![t] = "lock"]
    /\ UNCHANGED <<sc, cs, mutex, cur, ret, nOps, wire, xchg, card, phase, side>>

\* SecureChannel::send from the transmit to its end, and the rest of the
\* operation that called it
RecvSecure(t) ==
    /\ pc[t] = "tx"
    /\ wire[t].data.k = "sec"
    /\ \E isw \in AnswersInner :
         LET cr == CardHandle(card, wire[t], isw) IN
         \E raw \in AnswersSecure(cr.resp) :
            /\ card' = cr.card
            /\ mutex' = 0
            /\ UNCHANGED <<nOps, phase, side>>
            /\ IF raw = Throw
               THEN /\ xchg' = [xchg EXCEPT !.phase = "threw", !.how = raw.how,
                                              !.exc = "transport"]
                    /\ Finish(t, FALSE, "transport", 0, FALSE, FALSE)
                    /\ UNCHANGED <<sc, cs>>
               ELSE LET r == SendResponse(sc, raw) IN
                    /\ sc' = r.sc
                    /\ xchg' = [xchg EXCEPT
                                  !.phase = IF r.exc # "none" THEN "threw"
                                            ELSE IF r.verified THEN "verified" ELSE "passed",
                                  !.respMac = r.respMac, !.how = raw.how, !.exc = r.exc,
                                  !.authed = @ \/ (cur[t].stage = "ma" /\ r.exc = "none"
                                                     /\ IsOK(r.resp))]
                    /\ IF r.exc # "none"
                       THEN /\ Finish(t, FALSE, r.exc, 0, FALSE, FALSE)
                            /\ cs' = cs
                       ELSE IF cur[t].stage = "vp1" /\ r.resp.sw = SW_HOTPLUG
                       THEN /\ pc' = [pc EXCEPT ![t] = "sleep"]
                            /\ cur' = [cur EXCEPT ![t].stage = "vp2"]
                            /\ wire' = [wire EXCEPT ![t] = NoApdu]
                            /\ UNCHANGED <<cs, ret>>
                       ELSE LET e == SecureTail(cur[t].stage, cs, r.resp) IN
                            /\ cs' = e.cs
                            /\ Finish(t, e.ok, "none", r.resp.sw, r.verified, e.wrong)

\* CommandSet::select after its transmit
SelectTail(c, s, resp) ==
    LET r == CheckOK(c, resp) IN
    IF ~r.ok THEN [cs |-> r.cs, sc |-> s, ok |-> FALSE, info |-> NoAppInfo]
    ELSE LET info == ParseApplicationInfo(resp.data) IN
         [cs |-> [r.cs EXCEPT !.appInfo = info],
          sc |-> IF info.hasPub THEN [s EXCEPT !.rawPublicKeyData = TRUE] ELSE s,
          ok |-> TRUE, info |-> info]

\* select from the transmit to its end; inside factoryReset, the test of
\* what it returned and the transmit of FACTORY RESET; at the end of init,
\* the applet's new state is taken and init returns true
RecvSelect(t) ==
    /\ pc[t] = "tx"
    /\ cur[t].stage \in {"select", "fr_select", "init_select"}
    /\ LET cr == CardHandle(card, wire[t], SW_OK) IN
       \E raw \in AnswersPlain(cr.resp) :
          /\ card' = cr.card
          /\ UNCHANGED <<mutex, nOps, xchg, phase, side>>
          /\ IF raw = Throw
             THEN /\ Finish(t, FALSE, "transport", 0, FALSE, FALSE)
                  /\ UNCHANGED <<sc, cs>>
             ELSE LET e == SelectTail(cs, sc, Response(raw)) IN
                  /\ cs' = IF cur[t].stage = "init_select"
                           THEN [e.cs EXCEPT !.appInfo = e.info]
                           ELSE e.cs
                  /\ sc' = e.sc
                  /\ IF cur[t].stage = "select"
                     THEN Finish(t, e.ok, "none", Response(raw).sw, FALSE, FALSE)
                     ELSE IF cur[t].stage = "init_select"
                     THEN Finish(t, TRUE, "none", Response(raw).sw, FALSE, FALSE)
                     ELSE IF ~e.info.initialized
                     THEN Finish(t, TRUE, "none", Response(raw).sw, FALSE, FALSE)
                     ELSE LET cmd == BuildCommand("FACTORY_RESET", 170, 170, Empty) IN
                          /\ wire' = [wire EXCEPT ![t] = PlainApdu(cmd)]
                          /\ cur' = [cur EXCEPT ![t].stage = "fr", ![t].cmd = cmd]
                          /\ UNCHANGED <<pc, ret>>

\* factoryReset after the transmit of FACTORY RESET
RecvFactoryReset(t) ==
    /\ pc[t] = "tx"
    /\ cur[t].stage = "fr"
    /\ LET cr == CardHandle(card, wire[t], SW_OK) IN
       \E raw \in AnswersPlain(cr.resp) :
          /\ card' = cr.card
          /\ UNCHANGED <<mutex, nOps, phase, side>>
          /\ IF raw = Throw
             THEN /\ Finish(t, FALSE, "transport", 0, FALSE, FALSE)
                  /\ UNCHANGED <<sc, cs, xchg>>
             ELSE LET r == CheckOK(cs, Response(raw)) IN
                  IF r.ok
                  THEN /\ sc' = SecureChannelReset(sc)
                       /\ xchg' = NoXchg
                       /\ cs' = [r.cs EXCEPT !.appInfo = NoAppInfo, !.pairingInfo = NoPairing]
                       /\ Finish(t, TRUE, "none", Response(raw).sw, FALSE, FALSE)
                  ELSE /\ cs' = r.cs
                       /\ Finish(t, FALSE, "none", Response(raw).sw, FALSE, FALSE)
                       /\ UNCHANGED <<sc, xchg>>

\* openSecureChannel after the transmit of OPEN SECURE CHANNEL: the session
\* keys are derived and installed, then mutualAuthenticate enters send()
RecvOpen(t) ==
    /\ pc[t] = "tx"
    /\ cur[t].stage = "osc"
    /\ LET cr == CardHandle(card, wire[t], SW_OK) IN
       \E raw \in AnswersPlain(cr.resp) :
          /\ card' = cr.card
          /\ UNCHANGED <<mutex, nOps, phase, side>>
          /\ IF raw = Throw
             THEN /\ Finish(t, FALSE, "transport", 0, FALSE, FALSE)
                  /\ UNCHANGED <<sc, cs, xchg>>
             ELSE LET resp == Response(raw)
                      r == CheckOK(cs, resp)
                  IN IF ~r.ok
                     THEN /\ cs' = [r.cs EXCEPT !.lastError = "oscfail"]
                          /\ Finish(t, FALSE, "none", resp.sw, FALSE, FALSE)
                          /\ UNCHANGED <<sc, xchg>>
                     ELSE IF DataSize(resp.data) < MIN_CARD_DATA
                     THEN /\ cs' = [r.cs EXCEPT !.lastError = "badsize"]
                          /\ Finish(t, FALSE, "none", resp.sw, FALSE, FALSE)
                          /\ UNCHANGED <<sc, xchg>>
                     ELSE LET salt == resp.data.salt
                              ivv == resp.data.iv
                              key == cur[t].arg.key
                          IN /\ sc' = SecureChannelInit(sc, ivv, DeriveKey("enc", key, salt),
                                                        DeriveKey("mac", key, salt))
                             /\ xchg' = NoXchg
                             /\ cs' = r.cs
                             /\ pc' = [pc EXCEPT ![t] = "lock"]
                             /\ cur' = [cur EXCEPT ![t].stage = "ma",
                                                   ![t].cmd = SecureCommand("mutualAuthenticate")]
                             /\ wire' = [wire EXCEPT ![t] = NoApdu]
                             /\ ret' = ret

\* --------------------------------------------------------- specifications
SecureOps == {"verifyPIN", "unblockPIN", "changePIN"}
Pairings == {GoodPairing, WrongPairing, NoPairing,
             [key |-> "good", len |-> 32, index |-> MaxPairingSlots],
             [key |-> "short", len |-> 16, index |-> 1]}

\* one caller, any operation, any answer
Next ==
    \/ \E op \in SecureOps : CallSecure(1, op)
    \/ CallSelect(1)
    \/ CallFactoryReset(1)
    \/ \E p \in Pairings : CallOpenSecureChannel(1, p)
    \/ Enter(1)
    \/ Sleep(1)
    \/ RecvSecure(1)
    \/ RecvSelect(1)
    \/ RecvFactoryReset(1)
    \/ RecvOpen(1)

Spec == Init /\ [][Next]_vars


\* two callers on an open session: caller 1 selects the applet and opens the
\* channel, then both invoke operations
InitConc ==
    /\ sc = [open |-> FALSE, iv |-> Empty, encKey |-> Empty, macKey |-> Empty,
             rawPublicKeyData |-> FALSE]
    /\ cs = [appInfo |-> NoAppInfo, pairingInfo |-> NoPairing, lastError |-> "",
             remainingPINAttempts |-> NO_ATTEMPTS]
    /\ mutex = 0
    /\ pc = [t \in Threads |-> "idle"]
    /\ cur = [t \in Threads |-> IdleCur]
    /\ ret = [t \in Threads |-> NoRet]
    /\ nOps = [t \in Threads |-> 0]
    /\ wire = [t \in Threads |-> NoApdu]
    /\ xchg = NoXchg
    /\ card = [init |-> TRUE, sess |-> NoSess, nonce |-> 0]
    /\ phase = "setup"
    /\ tp = NoTp
    /\ ch = NoCh

\* the channel is open: from here on both callers run
StartRun ==
    /\ phase = "setup"
    /\ pc[1] = "idle" /\ sc.open /\ ret[1].op = "openSecureChannel" /\ ret[1].ok
    /\ phase' = "run"
    /\ nOps' = [t \in Threads |-> 0]
    /\ UNCHANGED <<sc, cs, mutex, pc, cur, ret, wire, xchg, card, side>>

ConcOps == {"verifyPIN"}

NextConc ==
    \/ phase = "setup" /\ ~sc.rawPublicKeyData /\ CallSelect(1)
    \/ phase = "setup" /\ ~sc.open /\ CallOpenSecureChannel(1, GoodPairing)
    \/ StartRun
    \/ \E t \in Threads, op \in ConcOps : phase = "run" /\ CallSecure(t, op)
    \/ \E t \in Threads : phase = "run" /\ CallSelect(t)
    \/ \E t \in Threads : Enter(t)
    \/ \E t \in Threads : Sleep(t)
    \/ \E t \in Threads : RecvSecure(t)
    \/ \E t \in Threads : RecvSelect(t)
    \/ \E t \in Threads : RecvOpen(t)

SpecConc == InitConc /\ [][NextConc]_vars


\* ------------------------------------------------- inside one transmit
\* CommandSet and SecureChannel as constructed, nothing invoked
Constructed ==
    /\ sc = [open |-> FALSE, iv |-> Empty, encKey |-> Empty, macKey |-> Empty,
             rawPublicKeyData |-> FALSE]
    /\ cs = [appInfo |-> NoAppInfo, pairingInfo |-> NoPairing, lastError |-> "",
             remainingPINAttempts |-> NO_ATTEMPTS]
    /\ mutex = 0
    /\ pc = [t \in Threads |-> "idle"]
    /\ cur = [t \in Threads |-> IdleCur]
    /\ ret = [t \in Threads |-> NoRet]
    /\ nOps = [t \in Threads |-> 0]
    /\ wire = [t \in Threads |-> NoApdu]
    /\ xchg = NoXchg
    /\ card = [init |-> TRUE, sess |-> NoSess, nonce |-> 0]
    /\ phase = "side"

core == <<sc, cs, mutex, pc, cur, ret, nOps, wire, xchg, card, phase>>

\* SW1 of a status word; 0x61 says that more data is waiting
SW1(sw) == sw \div 256
SW1_MORE == 97
FrameLens == {1, 2}
FinalSWs == {36864, 27013}
Backends == {"android", "pcsc"}
Paths == {"secure", "plain"}

RECURSIVE SumLens(_)
SumLens(fs) == IF fs = <<>> THEN 0 ELSE Head(fs).len + SumLens(Tail(fs))

\* the frames the card answers one command with: all but the last end with
\* 61xx, xx the length of the next one
Frames(lens, fsw) ==
    [i \in 1 .. Len(lens) |->
        [len |-> lens[i],
         sw |-> IF i < Len(lens) THEN SW1_MORE * 256 + lens[i + 1] ELSE fsw]]

InitFrames ==
    /\ Constructed
    /\ ch = NoCh
    /\ \E n \in 1 .. MaxFrames, fsw \in FinalSWs, b \in Backends, path \in Paths :
         \E lens \in [1 .. n -> FrameLens] :
            tp = [at |-> "idle", backend |-> b, path |-> path,
                  pending |-> Frames(lens, fsw), resp |-> [len |-> 0, sw |-> 0],
                  gets |-> 0, total |-> SumLens(Frames(lens, fsw)), final |-> fsw]

\* IsoDep.transceive / SCardTransmit: the card's first frame
Transceive ==
    /\ tp.at = "idle"
    /\ tp' = [tp EXCEPT !.at = "got", !.resp = Head(tp.pending),
                        !.pending = Tail(tp.pending)]
    /\ UNCHANGED <<core, ch>>

\* KeycardChannelAndroidNfc::handleMultiFrameResponse, then transmit returns:
\* on SW1 = 0x61 one GET RESPONSE, whose answer is appended in place of the
\* status word; the answer may fail to come
HandleMultiFrameResponse ==
    /\ tp.at = "got" /\ tp.backend = "android"
    /\ IF SW1(tp.resp.sw) = SW1_MORE
       THEN \E valid \in BOOLEAN :
              IF valid
              THEN LET additionalResponse == Head(tp.pending) IN
                   tp' = [tp EXCEPT !.at = "ret",
                                    !.resp = [len |-> tp.resp.len + additionalResponse.len,
                                              sw |-> additionalResponse.sw],
                                    !.pending = Tail(tp.pending),
                                    !.gets = @ + 1]
              ELSE tp' = [tp EXCEPT !.at = "ret"]
       ELSE tp' = [tp EXCEPT !.at = "ret"]
    /\ UNCHANGED <<core, ch>>

\* KeycardChannelPcsc::transmit returns what SCardTransmit received
PcscTransmitReturn ==
    /\ tp.at = "got" /\ tp.backend = "pcsc"
    /\ tp' = [tp EXCEPT !.at = "ret"]
    /\ UNCHANGED <<core, ch>>

\* the caller of transmit, SecureChannel::send or a plain operation such as
\* CommandSet::select: neither asks the card for more, the response goes on
\* as transmit returned it
Deliver ==
    /\ tp.at = "ret"
    /\ tp' = [tp EXCEPT !.at = "done"]
    /\ UNCHANGED <<core, ch>>

NextFrames ==
    \/ Transceive
    \/ HandleMultiFrameResponse
    \/ PcscTransmitReturn
    \/ Deliver

SpecFrames == InitFrames /\ [][NextFrames]_vars

\* ------------------------------------------------------------------ pair
\* derivePairingToken: PBKDF2-HMAC-SHA256 of the pairing password
PairingToken(password) == [t |-> "token", pw |-> password]
\* QCryptographicHash::Sha256 of secretHash || data
Sha256(token, data) == [len |-> 32, v |-> [t |-> "sha", k |-> token, d |-> data.v]]
ClientChallenge == [len |-> 32, v |-> [t |-> "challenge"]]
CardChallenge == [len |-> 32, v |-> [t |-> "cardchallenge"]]
PairSalt == [len |-> 32, v |-> [t |-> "pairsalt"]]
CardPassword == "good"
Passwords == {"good", "wrong"}
SW_NO_SLOTS == 27268
MIN_PAIR_DATA == 64

\* the card's answers to PAIR: its cryptogram over the client's challenge and
\* a challenge of its own; then, if the client's cryptogram is right, the
\* pairing index and a salt
CardPair1(apdu) ==
    Raw("card", [k |-> "pair1", len |-> 64,
                 cryptogram |-> Sha256(PairingToken(CardPassword), apdu.data.b),
                 challenge |-> CardChallenge], SW_OK)
CardPair2(apdu) ==
    IF apdu.data.b = Sha256(PairingToken(CardPassword), CardChallenge)
    THEN Raw("card", [k |-> "pair2", len |-> 33, index |-> 1, salt |-> PairSalt], SW_OK)
    ELSE Raw("card", NoData, 27010)

\* what transmit may give back for the two steps
PairAnswers1(h) ==
    {h, Throw, Nothing, Raw("bare", NoData, SW_NO_SLOTS), Raw("bare", NoData, 27013),
     Raw("short", [h.data EXCEPT !.len = 32], SW_OK),
     Raw("flipct", [h.data EXCEPT !.cryptogram = Flip(@)], SW_OK)}
PairAnswers2(h) ==
    {h, Throw, Raw("bare", NoData, 27010), Raw("bare", NoData, SW_OK)}

\* an answer where the cryptogram check would pass though it should not
CryptogramUnchecked(password, challenge, cardCryptogram) == TRUE

\* CommandSet::pair: expectedCryptogram == cardCryptogram
CryptogramOK(password, challenge, cardCryptogram) ==
    Sha256(PairingToken(password), challenge) = cardCryptogram

\* CommandSet::pair up to the transmit of step 1
CallPair(t, password) ==
    /\ CanCall(t)
    /\ LET cmd1 == BuildCommand("PAIR", 0, 0, ClientChallenge) IN
       /\ Begin(t, "pair", "pair1", cmd1, password, "tx")
       /\ wire' = [wire EXCEPT ![t] = PlainApdu(cmd1)]
    /\ UNCHANGED <<sc, cs, mutex, ret, xchg, card, phase, side>>

\* pair returns info (PairingInfo() when it failed) after sent transmits
PairReturn(t, info, exc, sw, sent, how1) ==
    /\ pc' = [pc EXCEPT ![t] = "idle"]
    /\ ret' = [ret EXCEPT ![t] = [op |-> "pair", ok |-> IsValid(info), exc |-> exc,
                                  sw |-> sw, verified |-> FALSE,
                                  wasOpen |-> cur[t].wasOpen, wrong |-> FALSE,
                                  sends |-> sent, nth |-> 0, arg |-> cur[t].arg,
                                  info |-> info, how1 |-> how1,
                                  password |-> cur[t].arg]]
    /\ cur' = [cur EXCEPT ![t] = IdleCur]
    /\ wire' = [wire EXCEPT ![t] = NoApdu]

\* pair from the transmit of step 1 to the transmit of step 2
RecvPair1(t) ==
    /\ pc[t] = "tx" /\ cur[t].stage = "pair1"
    /\ UNCHANGED <<sc, mutex, nOps, xchg, card, phase, side>>
    /\ \E raw \in PairAnswers1(CardPair1(wire[t])) :
         IF raw = Throw
         THEN PairReturn(t, NoPairing, "transport", 0, 1, raw.how) /\ cs' = cs
         ELSE LET resp1 == Response(raw)
                  r == CheckOK(cs, resp1)
              IN IF ~r.ok
                 THEN /\ cs' = [r.cs EXCEPT !.lastError =
                                   IF resp1.sw = SW_NO_SLOTS THEN "noslots" ELSE "pair1"]
                      /\ PairReturn(t, NoPairing, "none", resp1.sw, 1, raw.how)
                 ELSE IF DataSize(resp1.data) < MIN_PAIR_DATA
                 THEN /\ cs' = [r.cs EXCEPT !.lastError = "pairsize"]
                      /\ PairReturn(t, NoPairing, "none", resp1.sw, 1, raw.how)
                 ELSE IF ~CryptogramOK(cur[t].arg, cur[t].cmd.data, resp1.data.cryptogram)
                 THEN /\ cs' = [r.cs EXCEPT !.lastError = "cryptogram"]
                      /\ PairReturn(t, NoPairing, "none", resp1.sw, 1, raw.how)
                 ELSE LET ourCryptogram == Sha256(PairingToken(cur[t].arg),
                                                  resp1.data.challenge)
                          cmd2 == BuildCommand("PAIR", 1, 0, ourCryptogram)
                      IN /\ cs' = r.cs
                         /\ wire' = [wire EXCEPT ![t] = PlainApdu(cmd2)]
                         /\ cur' = [cur EXCEPT ![t].stage = "pair2", ![t].cmd = cmd2]
                         /\ UNCHANGED <<pc, ret>>

\* pair after the transmit of step 2
RecvPair2(t) ==
    /\ pc[t] = "tx" /\ cur[t].stage = "pair2"
    /\ UNCHANGED <<sc, mutex, nOps, xchg, card, phase, side>>
    /\ \E raw \in PairAnswers2(CardPair2(wire[t])) :
         IF raw = Throw
         THEN PairReturn(t, NoPairing, "transport", 0, 2, "card") /\ cs' = cs
         ELSE LET resp2 == Response(raw)
                  r == CheckOK(cs, resp2)
              IN IF ~r.ok
                 THEN /\ cs' = [r.cs EXCEPT !.lastError = "pair2"]
                      /\ PairReturn(t, NoPairing, "none", resp2.sw, 2, "card")
                 ELSE IF DataSize(resp2.data) = 0
                 THEN /\ cs' = [r.cs EXCEPT !.lastError = "nopairingdata"]
                      /\ PairReturn(t, NoPairing, "none", resp2.sw, 2, "card")
                 ELSE LET info == [key |-> Sha256(PairingToken(cur[t].arg),
                                                  resp2.data.salt),
                                   len |-> 32, index |-> resp2.data.index]
                      IN /\ cs' = [r.cs EXCEPT !.pairingInfo = info]
                         /\ PairReturn(t, info, "none", resp2.sw, 2, "card")

InitPair == Constructed /\ tp = NoTp /\ ch = NoCh

NextPair ==
    \/ \E password \in Passwords : CallPair(1, password)
    \/ RecvPair1(1)
    \/ RecvPair2(1)

SpecPair == InitPair /\ [][NextPair]_vars

\* ------------------------------------------- the other operations: arguments
\* A derivation path as its text splits: the prefix and the components
\* between the slashes. A component is a decimal number (num) or not, with
\* or without a trailing ' or h (hard).
PIN_LEN == 6
PUK_LEN == 12
MIN_PASSWORD_LEN == 5
HASH_LEN == 32
SEED_LEN == 64

\* QString::toUInt(&ok) of a component, ORed with 0x80000000 when hardened:
\* the top bit and the 31 bits below it. The number written is val, plus
\* 2^31 when big; toUInt takes any number below 2^32.
ComponentValue(seg) == [top |-> seg.hard \/ seg.big, low |-> seg.val]

\* QDataStream << quint32 with BigEndian byte order
BE32(value) ==
    <<(IF value.top THEN 128 ELSE 0) + (value.low \div 16777216),
      (value.low \div 65536) % 256, (value.low \div 256) % 256, value.low % 256>>

\* parseDerivationPath: the starting point from the prefix, then every
\* component that parses appended as a big-endian u32; a component that does
\* not parse is left out
RECURSIVE EncodeSegments(_)
EncodeSegments(segs) ==
    IF segs = <<>> THEN <<>>
    ELSE IF Head(segs).num
         THEN BE32(ComponentValue(Head(segs))) \o EncodeSegments(Tail(segs))
         ELSE EncodeSegments(Tail(segs))

ParseDerivationPath(path) ==
    LET bytes == EncodeSegments(path.segs) IN
    [startingPoint |-> CASE path.prefix = "m/" -> "FromMaster"
                         [] path.prefix = "../" -> "FromParent"
                         [] OTHER -> "FromCurrent",
     data |-> [len |-> Len(bytes), v |-> [t |-> "path", bytes |-> bytes]]]

\* the arguments the operations are tried with
GoodPath == [prefix |-> "m/",
             segs |-> <<[num |-> TRUE, hard |-> TRUE, big |-> FALSE, val |-> 44],
                        [num |-> TRUE, hard |-> FALSE, big |-> FALSE, val |-> 258]>>]
DerivationPaths ==
    {GoodPath,
     [prefix |-> "m/", segs |-> <<>>],
     [prefix |-> "../", segs |-> <<[num |-> TRUE, hard |-> FALSE, big |-> FALSE, val |-> 1]>>],
     [prefix |-> "", segs |-> <<[num |-> TRUE, hard |-> TRUE, big |-> FALSE, val |-> 0]>>],
     [prefix |-> "m/", segs |-> <<[num |-> TRUE, hard |-> FALSE, big |-> TRUE, val |-> 0]>>],
     [prefix |-> "m/", segs |-> <<[num |-> TRUE, hard |-> TRUE, big |-> FALSE, val |-> 44],
                                  [num |-> FALSE, hard |-> FALSE, big |-> FALSE, val |-> 0]>>],
     [prefix |-> "m/", segs |-> <<[num |-> FALSE, hard |-> TRUE, big |-> FALSE, val |-> 0],
                                  [num |-> TRUE, hard |-> FALSE, big |-> FALSE, val |-> 7]>>]}
GoodArg == [pin |-> [len |-> 6, digits |-> TRUE], puk |-> [len |-> 12, digits |-> TRUE], password |-> [len |-> 11, digits |-> FALSE],
            dataLen |-> 32, seedLen |-> 64, path |-> GoodPath, derive |-> TRUE]

SignOps == {"sign", "signPinless"}
SignPathOps == {"signWithPath", "signWithPathFullResponse"}
ExportOps == {"exportKey", "exportKeyExtended"}
PlainArgOps == {"unpair", "getStatus", "changePUK", "changePairingSecret", "generateKey",
                "generateMnemonic", "removeKey", "storeData", "getData"}
ChannelOps == SignOps \cup SignPathOps \cup ExportOps \cup PlainArgOps
                  \cup {"deriveKey", "setPinlessPath", "loadSeed"}

Args(op) ==
    CASE op = "init" ->
            {[GoodArg EXCEPT !.pin = pin, !.puk = puk, !.password = pw] :
                pin \in {[len |-> 6, digits |-> TRUE], [len |-> 5, digits |-> TRUE], [len |-> 6, digits |-> FALSE]},
                puk \in {[len |-> 12, digits |-> TRUE], [len |-> 13, digits |-> TRUE], [len |-> 12, digits |-> FALSE]},
                pw \in {[len |-> 11, digits |-> FALSE], [len |-> 4, digits |-> FALSE]}}
      [] op \in SignOps -> {[GoodArg EXCEPT !.dataLen = n] : n \in {32, 31}}
      [] op \in SignPathOps ->
            {[GoodArg EXCEPT !.dataLen = n, !.path = path] :
                n \in {32, 33}, path \in DerivationPaths}
      [] op = "loadSeed" -> {[GoodArg EXCEPT !.seedLen = n] : n \in {64, 32}}
      [] op \in ExportOps ->
            {[GoodArg EXCEPT !.derive = d, !.path = path] :
                d \in BOOLEAN, path \in DerivationPaths}
      [] op \in {"deriveKey", "setPinlessPath"} -> {[GoodArg EXCEPT !.path = path] : path \in DerivationPaths}
      [] OTHER -> {GoodArg}

\* ------------------------------------------ the other operations: the calls
\* the test of the arguments each operation makes before anything else; ""
\* when it has none or they pass
Validate(op, a) ==
    CASE op = "init" ->
            IF a.pin.len # PIN_LEN THEN "PIN must be 6 digits"
            ELSE IF a.puk.len # PUK_LEN THEN "PUK must be 12 digits"
            ELSE IF a.password.len < MIN_PASSWORD_LEN
                 THEN "Pairing password must be at least 5 characters"
            ELSE ""
      [] op \in SignOps \cup SignPathOps ->
            IF a.dataLen # HASH_LEN THEN "Data must be 32 bytes (hash)" ELSE ""
      [] op = "loadSeed" ->
            IF a.seedLen # SEED_LEN THEN "Seed must be 64 bytes" ELSE ""
      [] op = "setPinlessPath" ->
            IF a.path.prefix # "m/" THEN "Pinless path must be absolute (start with m/)"
            ELSE ""
      [] OTHER -> ""

\* the command an operation builds once its tests have passed
CommandFor(op, a) ==
    LET parsed == ParseDerivationPath(a.path)
        hash == [len |-> a.dataLen, v |-> [t |-> "hash"]]
    IN CASE op = "deriveKey" ->
               BuildCommand("DERIVE_KEY", parsed.startingPoint, 0, parsed.data)
         [] op = "setPinlessPath" -> BuildCommand("SET_PINLESS_PATH", 0, 0, parsed.data)
         [] op \in SignPathOps ->
               BuildCommand("SIGN", "SignDerive", 1,
                            [len |-> a.dataLen + parsed.data.len,
                             v |-> [t |-> "hashpath", bytes |-> parsed.data.v.bytes]])
         [] op \in SignOps -> BuildCommand("SIGN", op, 1, hash)
         [] op \in ExportOps ->
               IF a.derive
               THEN BuildCommand("EXPORT_KEY", <<"Derive", parsed.startingPoint>>, op,
                                 parsed.data)
               ELSE BuildCommand("EXPORT_KEY", "Current", op, Empty)
         [] op = "loadSeed" ->
               BuildCommand("LOAD_KEY", "Seed", 0, [len |-> a.seedLen, v |-> [t |-> "seed"]])
         [] op = "init" ->
               BuildCommand("INIT", 0, 0,
                            [len |-> 1 + 65 + 16 + PadLen(a.pin.len + a.puk.len + 32),
                             v |-> [t |-> "oneshot"]])
         [] OTHER -> BuildCommand(op, 0, 0, Empty)

\* CommandSet::init up to its transmit: the lengths of the secrets, the
\* one-shot encryption under the secret of SELECT, then INIT in the clear
CallInit(t, a) ==
    /\ CanCall(t)
    /\ IF Validate("init", a) # ""
       THEN /\ ReturnAtOnce(t, "init", a, [cs EXCEPT !.lastError = Validate("init", a)])
            /\ UNCHANGED <<sc, mutex, xchg, card, phase, side>>
       ELSE IF ~sc.rawPublicKeyData
       THEN /\ ReturnAtOnce(t, "init", a, [cs EXCEPT !.lastError = "Failed to encrypt INIT data"])
            /\ UNCHANGED <<sc, mutex, xchg, card, phase, side>>
       ELSE /\ Begin(t, "init", "init", CommandFor("init", a), a, "tx")
            /\ wire' = [wire EXCEPT ![t] = PlainApdu(CommandFor("init", a))]
            /\ UNCHANGED <<sc, cs, mutex, ret, xchg, card, phase, side>>

\* init after the transmit of INIT: checkOK, then SELECT again
RecvInit(t) ==
    /\ pc[t] = "tx"
    /\ cur[t].stage = "init"
    /\ LET cr == CardHandle(card, wire[t], SW_OK) IN
       \E raw \in AnswersPlain(cr.resp) :
          /\ card' = cr.card
          /\ UNCHANGED <<sc, mutex, nOps, xchg, phase, side>>
          /\ IF raw = Throw
             THEN /\ Finish(t, FALSE, "transport", 0, FALSE, FALSE)
                  /\ UNCHANGED cs
             ELSE LET r == CheckOK(cs, Response(raw)) IN
                  /\ cs' = r.cs
                  /\ IF ~r.ok
                     THEN Finish(t, FALSE, "none", Response(raw).sw, FALSE, FALSE)
                     ELSE /\ wire' = [wire EXCEPT ![t] = PlainApdu(SelectCommand)]
                          /\ cur' = [cur EXCEPT ![t].stage = "init_select",
                                                 ![t].cmd = SelectCommand]
                          /\ UNCHANGED <<pc, ret>>

\* an operation of the secure channel up to send(): the test of its
\* arguments where it has one, the isOpen test, the command
CallCommand(t, op, a) ==
    /\ CanCall(t)
    /\ IF Validate(op, a) # ""
       THEN /\ ReturnAtOnce(t, op, a, [cs EXCEPT !.lastError = Validate(op, a)])
            /\ UNCHANGED <<sc, mutex, xchg, card, phase, side>>
       ELSE IF ~IsOpen
       THEN /\ ReturnAtOnce(t, op, a, [cs EXCEPT !.lastError = "notopen"])
            /\ UNCHANGED <<sc, mutex, xchg, card, phase, side>>
       ELSE /\ Begin(t, op, "cp", CommandFor(op, a), a, "lock")
            /\ UNCHANGED <<sc, cs, mutex, ret, wire, xchg, card, phase, side>>

\* CommandSet::identify up to its transmit: a challenge in the clear
CallIdentify(t) ==
    /\ CanCall(t)
    /\ LET cmd == [cla |-> CLA_ISO7816, ins |-> "IDENTIFY", p1 |-> 0, p2 |-> 0,
                   data |-> [len |-> 32, v |-> [t |-> "challenge"]]]
       IN /\ Begin(t, "identify", "identify", cmd, NoPairing, "tx")
          /\ wire' = [wire EXCEPT ![t] = PlainApdu(cmd)]
    /\ UNCHANGED <<sc, cs, mutex, ret, xchg, card, phase, side>>

\* identify after its transmit: checkOK, the response data or nothing
RecvIdentify(t) ==
    /\ pc[t] = "tx"
    /\ cur[t].stage = "identify"
    /\ LET cr == CardHandle(card, wire[t], SW_OK) IN
       \E raw \in AnswersPlain(cr.resp) :
          /\ card' = cr.card
          /\ UNCHANGED <<sc, mutex, nOps, xchg, phase, side>>
          /\ IF raw = Throw
             THEN /\ Finish(t, FALSE, "transport", 0, FALSE, FALSE)
                  /\ UNCHANGED cs
             ELSE LET r == CheckOK(cs, Response(raw)) IN
                  /\ cs' = r.cs
                  /\ Finish(t, r.ok, "none", Response(raw).sw, FALSE, FALSE)

InitCmd == Constructed /\ tp = NoTp /\ ch = NoCh

NextCmd ==
    \/ CallSelect(1)
    \/ CallFactoryReset(1)
    \/ CallOpenSecureChannel(1, GoodPairing)
    \/ \E op \in SecureOps : CallSecure(1, op)
    \/ \E op \in ChannelOps : \E a \in Args(op) : CallCommand(1, op, a)
    \/ \E a \in Args("init") : CallInit(1, a)
    \/ Enter(1)
    \/ Sleep(1)
    \/ RecvSecure(1)
    \/ RecvSelect(1)
    \/ RecvFactoryReset(1)
    \/ RecvOpen(1)
    \/ RecvInit(1)
    \/ CallIdentify(1)
    \/ RecvIdentify(1)
    \/ \E password \in Passwords : CallPair(1, password)
    \/ RecvPair1(1)
    \/ RecvPair2(1)

SpecCmd == InitCmd /\ [][NextCmd]_vars

\* ---------------------------------------------- KeycardChannel and backends
\* ch.present is the UID of the card at the reader ("" for none),
\* ch.connected the backend's m_connected / m_target / s_connected, ch.atr the
\* UID the backend keeps, ch.uid KeycardChannel::m_targetUid; ins and rem
\* count the cards put to the reader and taken away, det and lost the
\* targetDetected and targetLost signals of KeycardChannel, calls the calls
\* of disconnect() and transmit(); ch.last says what the last step was, whether
\* isConnected() held before it, the signals it emitted and how a transmit
\* ended. Detection has been started.
ChanBackends == {"pcsc", "qtnfc", "android"}
Uids == {"a1", "b2"}

\* KeycardChannel::isConnected forwards to the backend
IsConnected(c) == c.connected

\* the lambdas of KeycardChannel::KeycardChannel on the backend's signals
ForwardTargetDetected(c, uid) ==
    [c EXCEPT !.uid = uid, !.det = @ + 1, !.last.det = Append(@, uid)]
ForwardCardRemoved(c) ==
    [c EXCEPT !.uid = "", !.lost = @ + 1, !.last.lost = @ + 1]

\* a step begins: what it is and whether the channel was connected
BeginStep(c, op) ==
    [c EXCEPT !.n = @ + 1,
              !.last = [op |-> op, conn |-> IsConnected(c), det |-> <<>>,
                        lost |-> 0, ok |-> FALSE, ev |-> "none", out |-> "none"]]

\* KeycardChannelPcsc::disconnectFromCard; the NFC backends drop their target
DisconnectFromCard(c) == [c EXCEPT !.connected = FALSE, !.atr = ""]

InitChan ==
    /\ Constructed
    /\ tp = NoTp
    /\ \E b \in ChanBackends, workaround \in BOOLEAN :
         /\ workaround => b = "qtnfc"
         /\ ch = [NoCh EXCEPT !.backend = b, !.workaround = workaround]

\* a card comes to the reader. PC/SC learns of it at its next poll; Qt NFC
\* calls onTargetDetected, which ignores a target while it holds one; the
\* Android reader calls onJavaTagConnected
CardInserted ==
    /\ ch.present = "" /\ ch.n < MaxChanSteps
    /\ \E uid \in Uids :
         LET c == [BeginStep(ch, "inserted") EXCEPT !.present = uid, !.ins = @ + 1] IN
         ch' = CASE c.backend = "pcsc" -> c
                 [] c.backend = "qtnfc" ->
                      IF c.connected THEN c
                      ELSE ForwardTargetDetected(
                               [c EXCEPT !.connected = TRUE, !.atr = uid], uid)
                 [] c.backend = "android" ->
                      ForwardTargetDetected([c EXCEPT !.connected = TRUE], uid)
    /\ UNCHANGED <<core, tp>>

\* the card leaves the reader. PC/SC is told nothing; Qt NFC calls
\* onTargetLost, which disconnects when the target is the one it holds; the
\* Android reader calls onJavaTagDisconnected
CardRemoved ==
    /\ ch.present # "" /\ ch.n < MaxChanSteps
    /\ LET c == [BeginStep(ch, "removed") EXCEPT !.present = "", !.rem = @ + 1] IN
       ch' = CASE c.backend = "pcsc" -> c
               [] c.backend = "qtnfc" ->
                    IF c.connected THEN ForwardCardRemoved(DisconnectFromCard(c))
                    ELSE c
               [] c.backend = "android" ->
                    ForwardCardRemoved([c EXCEPT !.connected = FALSE])
    /\ UNCHANGED <<core, tp>>

\* KeycardChannelPcsc::checkForCards, on every tick of the poll timer;
\* readers says whether listReaders() found a reader: when the reader has
\* been unplugged, the card in it is gone with it. connectToReader returns
\* true at once when m_connected is set, and connects when a card is in the
\* reader
CheckForCards ==
    /\ ch.backend = "pcsc" /\ ch.n < MaxChanSteps
    /\ \E readers \in BOOLEAN :
         LET b == BeginStep(ch, "poll")
             c == IF readers THEN b
                  ELSE [b EXCEPT !.present = "",
                                 !.rem = IF b.present # "" THEN @ + 1 ELSE @]
         IN
         ch' = IF ~readers
               THEN IF c.connected THEN ForwardCardRemoved(DisconnectFromCard(c))
                    ELSE c
               ELSE IF c.connected THEN ForwardTargetDetected(c, c.atr)
               ELSE IF c.present # ""
               THEN ForwardTargetDetected(
                        [c EXCEPT !.connected = TRUE, !.atr = c.present], c.present)
               ELSE c
    /\ UNCHANGED <<core, tp>>

\* KeycardChannel::disconnect forwards to the backend's disconnect()
Disconnect ==
    /\ ch.backend \in ChanBackends /\ ch.n < MaxChanSteps
    /\ LET c == [BeginStep(ch, "disconnect") EXCEPT !.calls = @ + 1] IN
       ch' = CASE c.backend = "pcsc" -> DisconnectFromCard(c)
               [] c.backend = "qtnfc" -> ForwardCardRemoved(DisconnectFromCard(c))
               [] c.backend = "android" ->
                    IF c.connected
                    THEN ForwardCardRemoved([c EXCEPT !.connected = FALSE])
                    ELSE c
    /\ UNCHANGED <<core, tp>>

\* what ends the wait of the standard Qt NFC transmit: the target completes
\* the request in time (requestCompleted), the 5-second timer fires, the
\* target reports an error (onTargetError), or sendCommand gave no valid
\* request id and there is no wait
NfcEvents == {"completed", "timeout", "error", "invalid"}

\* KeycardChannelQtNfc::transmit on the standard Qt NFC path, from the call
\* to its return or throw. The local PendingRequest pending is inserted into
\* m_pendingRequests by value; the requestCompleted lambda and onTargetError
\* write to the entry of the map; transmit then reads its local pending
QtNfcTransmit(c, ev) ==
    IF ~c.connected \/ ev = "invalid" THEN [c EXCEPT !.last.out = "throw"]
    ELSE LET requestId == c.calls
             pending == [completed |-> FALSE, response |-> "none"]
             inserted == (requestId :> pending) @@ c.pendingRequests
             handled == IF ev = "completed"
                        THEN [inserted EXCEPT ![requestId] =
                                 [completed |-> TRUE, response |-> "response"]]
                        ELSE inserted
             removed == [id \in DOMAIN handled \ {requestId} |-> handled[id]]
         IN
         [c EXCEPT !.pendingRequests = removed,
                   !.last.out = IF ev = "timeout" THEN "throw"
                                ELSE IF ~pending.completed THEN "throw"
                                ELSE pending.response]

\* KeycardChannel::transmit forwards to the backend's transmit; ok says
\* whether the exchange with the card succeeds, which takes a card at the
\* reader. last.out is how the call ends: "throw" (std::runtime_error),
\* "empty" (an empty QByteArray is returned) or "response". The Qt NFC
\* backend goes through IsoDep when the Android workaround is built in and
\* through QNearFieldTarget::sendCommand otherwise
Transmit ==
    /\ ch.backend \in ChanBackends /\ ch.n < MaxChanSteps
    /\ \E ok \in BOOLEAN, ev \in NfcEvents \cup {"none"} :
         /\ ok => ch.present # ""
         /\ IF ch.backend = "qtnfc" /\ ~ch.workaround
            THEN ev \in NfcEvents /\ (ok <=> ev = "completed")
            ELSE ev = "none"
         /\ LET c == [BeginStep(ch, "transmit") EXCEPT !.calls = @ + 1,
                                                   !.last.ok = ok,
                                                   !.last.ev = ev] IN
            ch' = CASE c.backend = "qtnfc" /\ ~c.workaround -> QtNfcTransmit(c, ev)
                    [] c.backend = "pcsc" \/ (c.backend = "qtnfc" /\ c.workaround) ->
                         [c EXCEPT !.last.out =
                             IF c.connected /\ ok THEN "response" ELSE "throw"]
                    [] c.backend = "android" ->
                         IF ~c.connected THEN [c EXCEPT !.last.out = "empty"]
                         ELSE IF ok THEN [c EXCEPT !.last.out = "response"]
                         ELSE ForwardCardRemoved(
                                  [c EXCEPT !.connected = FALSE,
                                            !.last.out = "empty"])
    /\ UNCHANGED <<core, tp>>

NextChan ==
    \/ CardInserted
    \/ CardRemoved
    \/ CheckForCards
    \/ Disconnect
    \/ Transmit

SpecChan == InitChan /\ [][NextChan]_vars

\* the observer of the signals starts counting afresh, as a QSignalSpy set
\* up in the middle of a test does: the channel and its backend stay as
\* they are
Recount ==
    /\ ch.backend \in ChanBackends /\ ch.n = MaxChanSteps
    /\ ch' = [ch EXCEPT !.n = 0, !.ins = 0, !.rem = 0, !.det = 0, !.lost = 0,
                        !.calls = 0, !.last = NoCh.last]
    /\ UNCHANGED <<core, tp>>

NextPoll ==
    \/ CardInserted
    \/ CardRemoved
    \/ CheckForCards
    \/ Disconnect
    \/ Transmit
    \/ Recount

\* the poll timer of the PC/SC backend keeps firing: checkForCards runs
\* again and again
SpecPoll ==
    InitChan /\ [][NextPoll]_vars /\ SF_vars(CheckForCards) /\ WF_vars(Recount)

\* ================================================================ claims
Idle(t) == pc[t] = "idle"
InSend(t) == pc[t] = "tx" /\ wire[t].data.k = "sec"

\* C1: the secure channel reports open only if a MUTUALLY AUTHENTICATE
\* exchange of that session has returned 9000; deriving the session keys in
\* OPEN SECURE CHANNEL alone never makes it open, and after a failed mutual
\* authentication it is not open.
C1_OpenOnlyAfterMutualAuth == sc.open => xchg.authed

\* C2: when send() finds, in an authenticated session, that the MAC of a
\* response does not match, the session is closed: isOpen() is false once
\* the call has ended.
C2_MacMismatchCloses ==
    \A t \in Threads : (Idle(t) /\ ret[t].exc = "mac" /\ xchg.authed) => ~sc.open

\* C3: when the transport fails while an authenticated session is open
\* (transmit throws or returns nothing), the session is closed: no session
\* is open once the operation has ended.
C3_TransportFailureCloses ==
    /\ \A t \in Threads :
          (Idle(t) /\ ret[t].exc = "transport" /\ xchg.authed) => ~sc.open
    /\ (xchg.how \in {"throw", "nothing"} /\ Idle(xchg.by) /\ xchg.authed) => ~sc.open

\* C4: IV chaining. Once a request is on the wire the IV is the MAC carried
\* in the first 16 bytes of that request's data; once a 9000 response has
\* been verified the IV is the MAC of that response.
C4_IVChaining ==
    /\ xchg.phase = "sent" =>
          /\ InSend(xchg.by)
          /\ Left16(wire[xchg.by].data) = xchg.reqMac
          /\ sc.iv = xchg.reqMac
    /\ xchg.phase = "verified" => sc.iv = xchg.respMac

\* a request of an authenticated session is on the wire, its MAC is the IV
C4_WitnessSent ==
    /\ xchg.phase = "sent" /\ xchg.authed /\ cur[xchg.by].op = "verifyPIN"
    /\ sc.iv = Left16(wire[xchg.by].data) /\ sc.iv.v.t = "mac"

C8_SuccessOnlyIfVerified ==
    \A t \in Threads :
        (Idle(t) /\ ret[t].ok /\ ret[t].op \in SecureOps \cup {"openSecureChannel"})
            => ret[t].verified

\* C9: after openSecureChannel or select has been called while a session was
\* open, the session is open only if that call was an openSecureChannel that
\* succeeded: the keys and the IV of the authenticated session before the
\* call are not left in use.
C9_ReopenInvalidates ==
    \A t \in Threads :
        (Idle(t) /\ ret[t].wasOpen /\ ret[t].op \in {"openSecureChannel", "select"}
            /\ ~(ret[t].op = "openSecureChannel" /\ ret[t].ok))
        => ~(sc.open /\ xchg.authed)

\* C10: verifyPIN and unblockPIN report a wrong PIN/PUK exactly when the
\* status word has the form 63Cx, (SW & 0xFFF0) = 0x63C0, and verifyPIN then
\* records SW & 0x0F as the remaining attempts.
C10_WrongPINExactly63Cx ==
    \A t \in Threads :
        (Idle(t) /\ ret[t].op \in {"verifyPIN", "unblockPIN"} /\ ret[t].exc = "none")
        => /\ ret[t].wrong <=> (And16(ret[t].sw, 65520) = 25536)
           /\ (ret[t].wrong /\ ret[t].op = "verifyPIN")
                 => cs.remainingPINAttempts = And16(ret[t].sw, 15)

\* C5: two callers in send() are serialised: at most one of them is between
\* its encryption and the end of its response handling, it holds the mutex,
\* and the IV is the MAC of its request, so requests and IV updates follow
\* one of the serial orders.
C5_SendsSerialised ==
    /\ Cardinality({t \in Threads : InSend(t)}) <= 1
    /\ \A t \in Threads :
          InSend(t) => /\ mutex = t
                       /\ xchg.phase = "sent" /\ xchg.by = t
                       /\ sc.iv = Left16(wire[t].data)

\* one caller is in send() while the other waits for the mutex
C5_WitnessWaiting ==
    \E t, u \in Threads :
        /\ t # u /\ phase = "run"
        /\ InSend(t) /\ pc[u] = "lock" /\ mutex = t

\* C6: at most one APDU is in flight on the transport at any time, plain
\* operations such as select included.
C6_OneApduInFlight ==
    Cardinality({t \in Threads : pc[t] = "tx"}) <= 1


\* C11: a wrong-PIN (63Cx) or conditions-not-satisfied (6985) result that the
\* card gave inside the secure channel leaves the session intact: the channel
\* is still open and its keys and running IV are those of the card, so the
\* card accepts the next encrypted command.
C11_SoftErrorKeepsSession ==
    \A t \in Threads :
        (/\ Idle(t) /\ ret[t].op \in SecureOps /\ ret[t].verified
         /\ xchg.by = t /\ xchg.how = "card" /\ ret[t].sw \in {25538, 27013})
        => /\ sc.open
           /\ card.sess.on
           /\ card.sess.iv = sc.iv
           /\ card.sess.enc = sc.encKey /\ card.sess.mac = sc.macKey

\* verifyPIN has reported a wrong PIN with two attempts left on an open channel
C11_WitnessWrongPIN ==
    /\ Idle(1) /\ ret[1].op = "verifyPIN" /\ ret[1].wrong /\ ret[1].verified
    /\ ret[1].sw = 25538 /\ cs.remainingPINAttempts = 2
    /\ xchg.how = "card" /\ sc.open /\ card.sess.iv = sc.iv


\* C12: when the first encrypted command after the channel opened is
\* answered with 6F05, the command, whichever it is, is sent a second time
\* (after the 50 ms sleep) before the operation returns.
C12_FirstCommandRetried ==
    \A t \in Threads :
        (/\ Idle(t) /\ ret[t].op \in SecureOps /\ ret[t].exc = "none"
         /\ ret[t].nth = 1 /\ ret[t].sw = SW_HOTPLUG)
        => ret[t].sends = 2

\* C13: a command that is not the first one after the channel opened is
\* sent at most once, whatever status word comes back.
C13_LaterCommandsSentOnce ==
    \A t \in Threads : cur[t].nth = 2 => cur[t].sends <= 1


\* C14: whatever the number of 61xx frames, the caller of transmit receives
\* one payload made of the data of all frames and ending with the final
\* status word, whose SW1 is not 0x61.
C14_AllFramesCollected ==
    tp.at = "done" =>
        /\ SW1(tp.resp.sw) # SW1_MORE
        /\ tp.pending = <<>>
        /\ tp.resp.len = tp.total
        /\ tp.resp.sw = tp.final


\* C15: when the card cryptogram of the PAIR step-1 response is not
\* SHA-256(pairing token || client challenge), pair fails with the
\* cryptogram error, returns an invalid PairingInfo and has transmitted
\* step 1 only.
C15_CryptogramMismatchStopsPair ==
    \A t \in Threads :
        (/\ Idle(t) /\ ret[t].op = "pair" /\ ret[t].exc = "none"
         /\ \/ ret[t].how1 = "flipct"
            \/ ret[t].how1 = "card" /\ ret[t].password # CardPassword)
        => /\ cs.lastError = "cryptogram"
           /\ ~IsValid(ret[t].info) /\ ~ret[t].ok
           /\ ret[t].sends = 1

\* pair with a wrong password has stopped after step 1
C15_WitnessWrongPassword ==
    /\ Idle(1) /\ ret[1].op = "pair" /\ ret[1].how1 = "card"
    /\ ret[1].password = "wrong" /\ cs.lastError = "cryptogram" /\ ret[1].sends = 1

\* C16: an operation that needs the secure channel, invoked with valid
\* arguments while the channel is not open, returns failure with the
\* "secure channel not open" error and has transmitted no APDU.
C16_ClosedChannelRefuses ==
    \A t \in Threads :
        (/\ Idle(t)
         /\ ret[t].op \in ChannelOps \cup SecureOps
         /\ ~ret[t].wasOpen
         /\ Validate(ret[t].op, ret[t].arg) = "")
        => /\ ret[t].exc = "none" /\ ~ret[t].ok
           /\ ret[t].sends = 0
           /\ cs.lastError = "notopen"

C16_WitnessRefused ==
    /\ Idle(1) /\ ret[1].op = "deriveKey" /\ ~ret[1].wasOpen
    /\ ret[1].arg.path = GoodPath
    /\ sc.rawPublicKeyData
    /\ ret[1].sends = 0 /\ cs.lastError = "notopen"

\* C17: when factoryReset has returned success (the card having answered
\* 9000), the secure channel is closed, the stored pairing info is invalid
\* and the cached ApplicationInfo is empty.
C17_ResetClearsEverything ==
    \A t \in Threads :
        (/\ Idle(t) /\ ret[t].op = "factoryReset"
         /\ ret[t].exc = "none" /\ ret[t].ok /\ ret[t].sw = SW_OK)
        => /\ ~IsOpen
           /\ ~IsValid(cs.pairingInfo)
           /\ cs.appInfo = NoAppInfo

\* C18: factoryReset returns failure when the last answer of the card, to
\* the SELECT or to FACTORY RESET, carried an error status word (an answer
\* without a status word reads as 0 and is left aside).
C18_ErrorStatusFails ==
    \A t \in Threads :
        (/\ Idle(t) /\ ret[t].op = "factoryReset"
         /\ ret[t].exc = "none" /\ ret[t].sw \notin {SW_OK, 0})
        => ~ret[t].ok

\* C19: an operation whose arguments fail its validation has no APDU on the
\* transport: init with a PIN that is not 6 digits, a PUK that is not 12
\* digits or a password shorter than 5 characters, a sign variant with data
\* that is not 32 bytes, loadSeed with a seed that is not 64 bytes,
\* setPinlessPath with a path that does not start with "m/".
C19_InvalidArgumentsNotSent ==
    \A t \in Threads :
        LET op == cur[t].op
            a == cur[t].arg
        IN pc[t] = "tx" =>
            /\ op = "init" =>
                   /\ a.pin.len = PIN_LEN /\ a.pin.digits
                   /\ a.puk.len = PUK_LEN /\ a.puk.digits
                   /\ a.password.len >= MIN_PASSWORD_LEN
            /\ op \in SignOps \cup SignPathOps => a.dataLen = HASH_LEN
            /\ op = "loadSeed" => a.seedLen = SEED_LEN
            /\ op = "setPinlessPath" => a.path.prefix = "m/"

\* C20: an operation that takes a derivation path has no APDU on the
\* transport when a component of the path is not a decimal number
\* optionally followed by ' or h.
C20_InvalidPathNotSent ==
    \A t \in Threads :
        (/\ pc[t] = "tx"
         /\ \/ cur[t].op \in SignPathOps \cup {"deriveKey", "setPinlessPath"}
            \/ cur[t].op \in ExportOps /\ cur[t].arg.derive)
        => \A i \in 1 .. Len(cur[t].arg.path.segs) : cur[t].arg.path.segs[i].num

\* C21: the bytes sent for an absolute path whose components are all
\* numbers are four per component, in order and big-endian, and the top bit
\* of a component's first byte is set exactly when it is written with ' or h.
C21_PathBytes ==
    \A t \in Threads :
        LET path == cur[t].arg.path
            bytes == cur[t].cmd.data.v.bytes
        IN (/\ pc[t] = "tx"
            /\ \/ cur[t].op \in {"deriveKey", "setPinlessPath"}
               \/ cur[t].op \in ExportOps /\ cur[t].arg.derive
            /\ path.prefix = "m/"
            /\ \A i \in 1 .. Len(path.segs) : path.segs[i].num)
           => /\ Len(bytes) = 4 * Len(path.segs)
              /\ \A i \in 1 .. Len(path.segs) :
                    LET b == SubSeq(bytes, 4 * i - 3, 4 * i) IN
                    /\ (b[1] % 128) * 16777216 + b[2] * 65536 + b[3] * 256 + b[4]
                           = path.segs[i].val
                    /\ (b[1] >= 128) <=> path.segs[i].hard

\* C22: after an operation that failed, by its return value or by an error
\* raised in the secure channel or the transport, lastError() is not empty.
C22_FailureSetsLastError ==
    \A t \in Threads :
        (/\ Idle(t) /\ ret[t].op # "none"
         /\ (~ret[t].ok \/ ret[t].exc # "none"))
        => cs.lastError # ""

\* C23: lastError() is empty before any operation and after every operation
\* that returned success (a factoryReset that returned success on an error
\* status word is left to C18).
C23_SuccessClearsLastError ==
    \A t \in Threads :
        (/\ Idle(t)
         /\ \/ nOps[1] + nOps[2] = 0
            \/ /\ ret[t].op # "none" /\ ret[t].ok /\ ret[t].exc = "none"
               /\ ~(ret[t].op = "factoryReset" /\ ret[t].sw # SW_OK))
        => cs.lastError = ""

\* C24: when a verifyPIN that exchanged an APDU ends, remainingPINAttempts()
\* is the count of its status word if that was a wrong-PIN status 63CX, and
\* -1 otherwise; it is -1 before any operation.
C24_RemainingAttempts ==
    /\ (nOps[1] + nOps[2] = 0 /\ phase # "run") => cs.remainingPINAttempts = NO_ATTEMPTS
    /\ \A t \in Threads :
          (/\ Idle(t) /\ ret[t].op = "verifyPIN" /\ ret[t].sends >= 1
           /\ \A u \in Threads \ {t} : Idle(u) /\ ret[u].op # "verifyPIN")
          => cs.remainingPINAttempts =
                IF ret[t].exc = "none" /\ ret[t].sw \div 16 = 1596
                THEN ret[t].sw % 16 ELSE NO_ATTEMPTS

C26_InitEndsInitialized ==
    \A t \in Threads :
        /\ cur[t].stage = "init_select"
              => wire[t].ins = "SELECT" /\ cs.lastError = ""
        /\ (Idle(t) /\ ret[t].op = "init" /\ ret[t].ok /\ ret[t].exc = "none")
              => cs.appInfo.initialized

\* C27: openSecureChannel has no APDU on the transport for a PairingInfo
\* that is not valid, and when it has returned for such an argument it
\* returned false with the invalid-pairing error.
C27_InvalidPairingRefused ==
    \A t \in Threads :
        /\ (pc[t] = "tx" /\ cur[t].op = "openSecureChannel") => IsValid(cur[t].arg)
        /\ (Idle(t) /\ ret[t].op = "openSecureChannel" /\ ~IsValid(ret[t].arg))
              => /\ ~ret[t].ok /\ ret[t].exc = "none"
                 /\ cs.lastError = "invalidpairing"

C27_WitnessBadIndex ==
    /\ Idle(1) /\ ret[1].op = "openSecureChannel"
    /\ ret[1].arg.len = KEY_LEN /\ ret[1].arg.index = MaxPairingSlots
    /\ sc.rawPublicKeyData
    /\ ~ret[1].ok /\ cs.lastError = "invalidpairing"

\* C28: a transmit on a channel that is not connected to a card, or whose
\* exchange with the card fails, ends in std::runtime_error and returns no
\* response to the caller, whichever the backend.
C28_TransmitThrows ==
    (ch.last.op = "transmit" /\ (~ch.last.conn \/ ~ch.last.ok))
        => ch.last.out = "throw"

\* C29: while the client calls neither disconnect() nor transmit(),
\* KeycardChannel emits one targetDetected per card put to the reader and
\* one targetLost per card taken away, in the order of the events: never
\* more signals than events, never a targetLost ahead of its targetDetected;
\* and once every event has had its signal, isConnected() and targetUid()
\* show the card at the reader, or no connection and an empty UID when
\* there is none.
C29_OneSignalPerEvent ==
    ch.calls = 0 =>
        /\ ch.det <= ch.ins /\ ch.lost <= ch.rem /\ ch.lost <= ch.det
        /\ ch.backend \in {"qtnfc", "android"}
              => ch.det = ch.ins /\ ch.lost = ch.rem
        /\ (ch.det = ch.ins /\ ch.lost = ch.rem)
              => /\ IsConnected(ch) <=> ch.present # ""
                 /\ ch.uid = ch.present

\* C30: KeycardChannel::disconnect() called while a card is connected emits
\* targetLost exactly once, and after any disconnect() isConnected() is
\* false, whichever the backend.
C30_DisconnectEmitsTargetLost ==
    ch.last.op = "disconnect" =>
        /\ ~IsConnected(ch)
        /\ ch.last.conn => ch.last.lost = 1

\* C31: in every state of a KeycardChannel, after any detections, removals
\* and calls of disconnect(), targetUid() is empty whenever isConnected() is
\* false.
C31_UidEmptyWhenDisconnected == ~IsConnected(ch) => ch.uid = ""

\* C32: whenever the secure channel is open, the running IV is 16 bytes long
\* and the encryption key and the MAC key are 32 bytes long each, whatever
\* the length of the data the card returned to OPEN SECURE CHANNEL.
C32_SessionLengths ==
    sc.open => sc.iv.len = BLOCK /\ sc.encKey.len = KEY_LEN /\ sc.macKey.len = KEY_LEN

\* C33: SecureChannel::reset() clears the handshake material with the
\* session: when factoryReset ends in success after FACTORY RESET was
\* answered 9000, which is where reset() is called, the ECDH secret and the
\* client's ephemeral key pair are gone (secret() and rawPublicKey() are
\* empty).
C33_ResetClearsHandshake ==
    [][\A t \in Threads :
          (/\ cur[t].stage = "fr"
           /\ pc'[t] = "idle" /\ ret'[t].op = "factoryReset" /\ ret'[t].ok)
          => ~sc'.rawPublicKeyData]_vars

\* C34: a command occupies the session for its whole duration: while an
\* operation of several APDUs has had its first APDU answered and has not
\* yet transmitted its next one (openSecureChannel before its mutual
\* authentication, verifyPIN before its retry, pair before its second step,
\* init and factoryReset around their SELECT), no other thread transmits an
\* APDU of its own through send().
C34_OperationOccupiesSession ==
    \A t, u \in Threads :
        (/\ t # u
         /\ cur[t].stage \in {"ma", "vp2", "pair2", "init_select", "fr"}
         /\ pc[t] \in {"lock", "sleep"})
        => ~InSend(u)

\* C35: the sixteen zero bytes that calculateMAC returns when it fails or
\* when its input gives fewer than two cipher blocks are never accepted by
\* send() as the MAC of a response and never become the running IV of the
\* session.
C35_ZeroMacNeverAccepted ==
    /\ sc.open => sc.iv # Zero16
    /\ xchg.phase = "verified" => xchg.respMac # Zero16

\* C36: when the response to an encrypted command carries an error status
\* word or no data, send() hands it back without a MAC check and without an
\* exception and leaves the running IV as it was, equal to the MAC of the
\* request just sent; the next request is encrypted under that IV.
C36_ErrorAnswerPassedOn ==
    /\ [](xchg.phase = "passed" => sc.iv = xchg.reqMac)
    /\ [][\A t \in Threads :
             (InSend(t) /\ xchg'.phase = "passed")
             => /\ sc'.iv = sc.iv
                /\ pc'[t] = "idle" => (~ret'[t].verified /\ ret'[t].exc = "none")]_vars
    /\ [][\A t \in Threads :
             (pc[t] = "lock" /\ pc'[t] = "tx" /\ xchg.phase = "passed")
             => wire'[t].data.ct.v.iv = xchg.reqMac.v]_vars

\* an established session whose last encrypted command was answered 6982 in
\* the clear and has returned
C36_WitnessErrorAnswer ==
    \E t \in Threads :
        /\ sc.open /\ xchg.authed /\ xchg.phase = "passed" /\ xchg.how = "bare"
        /\ Idle(t) /\ ret[t].op \in SecureOps /\ ret[t].sw = 27010

\* C37: a pair or openSecureChannel call that fails leaves pairingInfo() as
\* it was before the call; stated for the first call made on a CommandSet,
\* before which no pairing is stored.
C37_FailureKeepsPairing ==
    \A t \in Threads :
        (/\ Idle(t) /\ ret[t].op \in {"pair", "openSecureChannel"} /\ ~ret[t].ok
         /\ \A u \in Threads : nOps[u] = (IF u = t THEN 1 ELSE 0))
        => cs.pairingInfo = NoPairing

\* C38: while PC/SC detection is polling, targetDetected is emitted once for
\* a card: a poll that finds the backend already connected to a card emits
\* no further targetDetected.
C38_PollDetectsOnce ==
    (ch.backend = "pcsc" /\ ch.last.op = "poll" /\ ch.last.conn)
        => ch.last.det = <<>>

\* C39: while PC/SC detection is polling, when a connected card has been
\* taken out of the reader, later the backend is disconnected (a poll has
\* disconnected from the card and emitted cardRemoved, or disconnect() was
\* called) or a card is in the reader again.
C39_RemovalDetected ==
    (ch.backend = "pcsc" /\ IsConnected(ch) /\ ch.present = "")
        ~> (~IsConnected(ch) \/ ch.present # "")

\* C40: on the standard Qt NFC path, a transmit to a connected target whose
\* request the target completes before the 5-second timeout returns the
\* response of that request; transmit throws only on timeout, on a failed
\* or cancelled request, or when there is no target; and after the call the
\* request has no entry in the pending-request map.
C40_QtNfcTransmitReturnsResponse ==
    (ch.backend = "qtnfc" /\ ~ch.workaround /\ ch.last.op = "transmit")
        => /\ (ch.last.conn /\ ch.last.ev = "completed") => ch.last.out = "response"
           /\ ch.last.out = "throw"
                  => (~ch.last.conn \/ ch.last.ev \in {"timeout", "error", "invalid"})
           /\ DOMAIN ch.pendingRequests = {}

====
